---- MODULE Spec2Model ----
(***************************************************************************)
(* Verification model of the GRASS GIS addons of i.sentinel_2:             *)
(*   i.sentinel_2.autotraining   (SpecAuto, the default Spec)              *)
(*   i.sentinel_2.parallel.index and i.sentinel_2.vrt.index (SpecIndex)    *)
(*   temporary layer names of two runs in one mapset        (SpecNames)    *)
(*   i.sentinel_2.sen2cor                                   (SpecSen2cor)  *)
(*   i.sentinel_2.ndvidiff                                  (SpecNdvi)     *)
(*                                                                         *)
(* A raster is a function from the cells of the computational region to a *)
(* value or Null.  Index values (NDVI, NDWI, NDBI, BSI) are kept in tenths *)
(* (0.5 is 5); a percentile is kept in fortieths (four times the tenths)   *)
(* because r.quantile interpolates between two neighbouring values.        *)
(***************************************************************************)
EXTENDS Integers, Sequences, FiniteSets, TLC

\* ------------------------------------------------------------------ bounds
\* number of cells of the computational region
NCells == 3
\* largest npoints option tried
MaxNpoints == 2

Cells == 1..NCells

\* ------------------------------------------------- values and layer names
\* null() of r.mapcalc: no data in a cell
Null == -1
\* no raster name (Python None / empty option)
None == <<"", 0>>
\* os.getpid() of the autotraining run
Getpid == 1
\* "<base>_<pid>": a layer name that carries the process id
TempName(base, p) == <<base, p>>
\* a layer name without a process id (user-named outputs, MASK)
PlainName(base) == <<base, 0>>
MASK == PlainName("MASK")
\* a name carries the pid p when it was built with "_%s" % os.getpid()
HasPid(name, p) == name[2] = p

\* ---------------------------------------------------- reference categories
water_cats_probav == {80, 200}
water_cats_gong == {60}
lowveg_cats_probav == {20, 30, 40, 100, 121, 122, 123, 124, 125, 126}
lowveg_cats_gong == {10, 30, 40, 50, 70}
forest_cats_probav == {111, 113, 112, 114, 115, 116, 121, 123, 122, 124, 125, 126}
forest_cats_gong == {20}
baresoil_cats_probav == {60, 40}
baresoil_cats_gong == {10, 90}
builtup_cats_probav == {50}
treecov_max_lowveg == 25
treecov_min_forest == 60
treecov_max_baresoil == 25
builtup_thresh_ghs == 3
\* 0.5 and 0.3 in tenths
ndvi_thresh_lowveg == 5
ndvi_threshold_baresoil == 3

\* output class nomenclature: (code, label)
water == <<10, "water">>
low_veg == <<20, "low vegetation">>
forest == <<30, "forest">>
builtup == <<40, "built-up">>
\* the bare soil code under the label of another class
baresoil_as_builtup == <<50, "built-up">>
baresoil == <<50, "bare soil">>

\* ------------------------------------------------------------ input cells
\* The kinds of cell the input rasters are drawn from: reference classes,
\* tree cover (percent), GHS built-up value and the four indices in tenths.
\* The NDVI values put the median of a low vegetation mask below, at and
\* above 0.5 and that of a bare soil mask below, at and above 0.3.
CellKinds == <<
  [probav |-> 80,  gong |-> 60, treecov |-> 0,  ghs |-> 0, ndvi |-> 1, ndwi |-> 8, ndbi |-> 2, bsi |-> 2],
  [probav |-> 30,  gong |-> 30, treecov |-> 10, ghs |-> 0, ndvi |-> 4, ndwi |-> 2, ndbi |-> 3, bsi |-> 4],
  [probav |-> 40,  gong |-> 10, treecov |-> 10, ghs |-> 0, ndvi |-> 6, ndwi |-> 2, ndbi |-> 4, bsi |-> 8],
  [probav |-> 60,  gong |-> 90, treecov |-> 0,  ghs |-> 0, ndvi |-> 0, ndwi |-> 1, ndbi |-> 5, bsi |-> 4],
  [probav |-> 111, gong |-> 20, treecov |-> 80, ghs |-> 0, ndvi |-> 7, ndwi |-> 2, ndbi |-> 2, bsi |-> 2],
  [probav |-> 111, gong |-> 20, treecov |-> 90, ghs |-> 0, ndvi |-> 9, ndwi |-> 2, ndbi |-> 2, bsi |-> 1],
  [probav |-> 50,  gong |-> 80, treecov |-> 0,  ghs |-> 4, ndvi |-> 2, ndwi |-> 1, ndbi |-> 8, bsi |-> 6] >>

\* Cells carry no position (every command used works cell by cell), so a
\* region is taken up to the order of its cells: kinds in ascending order.
Regions == {r \in [Cells -> 1..Len(CellKinds)] :
              \A i \in Cells : i < NCells => r[i] <= r[i + 1]}

\* percentage_threshold option (percent of the total area)
Thresholds == {0, 25, 50}
Npoints == 1..MaxNpoints

VARIABLES
  opt,               \* options and environment of the autotraining run
  pc,                \* position of the autotraining run
  rast,              \* rasters of the mapset created by the run: name -> cells -> value
  mask,              \* the raster MASK: [on, cells (visible), base (raster it reclasses), user]
  rm_rasters,        \* global list of rasters to remove at exit
  tmp_mask_old,      \* global: name the old MASK was saved under, or None
  loc,               \* local variables of main (total_cells, percentiles)
  output_classes,    \* classes that passed the coverage test
  training_rasters,  \* their rasters
  warned,            \* rasters a "only n pixels found" warning was emitted for
  vect,              \* output_vector: None-like [on |-> FALSE] or its points and columns
  status             \* running | fatal | error | ok

VARIABLES
  px,                \* the run of i.sentinel_2.parallel.index
  vx,                \* the run of i.sentinel_2.vrt.index
  runs,              \* two runs in one mapset: pid -> script, position, names
  mapset,            \* the layers that exist in that mapset
  sx,                \* the run of i.sentinel_2.sen2cor
  nx                 \* the run of i.sentinel_2.ndvidiff

autoVars == <<opt, pc, rast, mask, rm_rasters, tmp_mask_old, loc,
              output_classes, training_rasters, warned, vect, status>>
indexVars == <<px, vx>>
nameVars == <<runs, mapset>>
\* what the autotraining run leaves alone
toolVars == <<sx, nx>>
other == <<indexVars, nameVars, toolVars>>
vars == <<autoVars, indexVars, nameVars, toolVars>>

\* ------------------------------------------------------- raster engine
NoMask == [on |-> FALSE, cells |-> {}, base |-> None, user |-> FALSE]
\* a MASK the user had set before the run: it hides the last cell
UserMask == [on |-> TRUE, cells |-> Cells \ {NCells}, base |-> None, user |-> TRUE]

\* a cell is read as null when an active MASK hides it
Hidden(c) == mask.on /\ c \notin mask.cells
\* value of an input raster (options ndvi, ndwi, ndbi, bsi and the references)
V(field, c) == IF Hidden(c) THEN Null ELSE CellKinds[opt.region[c]][field]
\* value of a raster the run created
R(name, c) == IF Hidden(c) THEN Null ELSE rast[name][c]
IsInput(name) == name[2] = 0 /\ name[1] \in {"ndvi", "ndwi", "ndbi", "bsi"}
Seen(name, c) == IF IsInput(name) THEN V(name[1], c) ELSE R(name, c)
NonNull(name) == {c \in Cells : Seen(name, c) # Null}

\* r.univar -g: the number n of non-null cells
univar_n(name) == Cardinality(NonNull(name))

\* the i-th smallest (from 0) value of the non-null cells of a raster
Kth(name, i) ==
  LET S == NonNull(name)
      vals == {Seen(name, c) : c \in S}
  IN  CHOOSE v \in vals :
        /\ Cardinality({c \in S : Seen(name, c) <= v}) > i
        /\ \A w \in vals : w < v => Cardinality({c \in S : Seen(name, c) <= w}) <= i

\* get_percentile: r.quantile of the visible cells, times four.  r.quantile
\* takes position k = n * p / 100 in the sorted values and interpolates
\* linearly between floor(k) and ceil(k), both cut at n - 1.  Without any
\* visible cell the value is of no consequence (every cell computed from it
\* is hidden) and is taken as 0.
get_percentile(name, p) ==
  LET n == univar_n(name)
      k4 == n * (p \div 25)
      fr == k4 % 4
      i0 == IF k4 \div 4 > n - 1 THEN n - 1 ELSE k4 \div 4
      up == IF fr > 0 THEN i0 + 1 ELSE i0
      i1 == IF up > n - 1 THEN n - 1 ELSE up
  IN  IF n = 0 THEN 0
      ELSE Kth(name, i0) * (4 - fr) + Kth(name, i1) * fr

\* get_or_string: "raster == v1 || raster == v2 ..." in one cell
get_or_string(field, values, c) == V(field, c) \in values

\* test_percentage as the comment above it words it: at least the threshold
test_percentage_at_least(n_raster, reference_cells, percentage_threshold) ==
  n_raster * 100 >= percentage_threshold * reference_cells
\* test_percentage: n_raster / reference_cells > percentage_threshold * 0.01
test_percentage(n_raster, reference_cells, percentage_threshold) ==
  n_raster * 100 > percentage_threshold * reference_cells

\* ------------------------------------------------------------ run state
NoVect == [on |-> FALSE, pts |-> <<>>, cols |-> {}, label |-> <<>>]
NoLoc == [total_cells |-> 0, water_ndwi_perc |-> 0,
          lowveg_ndvi_median |-> 0, ndvi_percentile_lowveg |-> 0, lowveg_ndvi_perc |-> 0,
          forest_ndvi_perc |-> 0,
          baresoil_ndvi_median |-> 0, ndvi_percentile_baresoil |-> 0,
          baresoil_ndvi_perc |-> 0, baresoil_bsi_perc |-> 0,
          builtup_ndvi_perc |-> 0, builtup_ndbi_perc |-> 0]

\* option values of one run.  --overwrite is only read by r.mask when a MASK
\* exists, so it is only varied then.
Options ==
  {o \in [region : Regions, threshold : Thresholds, npoints : Npoints,
          bsi : {PlainName("bsi"), None}, gong : BOOLEAN,
          mask0 : {NoMask, UserMask}, overwrite : BOOLEAN] :
     o.mask0 = NoMask => ~o.overwrite}

output_raster == PlainName("output_raster")
ndvi == PlainName("ndvi")
ndwi == PlainName("ndwi")
ndbi == PlainName("ndbi")

InitAuto ==
  /\ opt \in Options
  /\ pc = "total_cells"
  /\ rast = <<>>
  /\ mask = opt.mask0
  /\ rm_rasters = <<>>
  /\ tmp_mask_old = None
  /\ loc = NoLoc
  /\ output_classes = <<>>
  /\ training_rasters = <<>>
  /\ warned = {}
  /\ vect = NoVect
  /\ status = "running"

\* ------------------------------------------------------ command helpers
\* an uncaught CalledModuleError (or grass.fatal): the interpreter exits
Abort(how) ==
  /\ status' = how
  /\ pc' = "exit"

\* r.mapcalc "name = expr": writes every cell of the region
Mapcalc(name, Expr) == rast' = (name :> [c \in Cells |-> Expr[c]]) @@ rast

\* r.mask raster=name: MASK becomes a reclass of name, non-null cells visible;
\* with a MASK present r.mask gives up unless --overwrite is in force
CanSetMask == ~mask.on \/ opt.overwrite
SetMask(name) ==
  mask' = [on |-> TRUE, cells |-> {c \in Cells : rast[name][c] # Null},
           base |-> name, user |-> FALSE]
\* r.mask -r, and a variant that leaves the MASK in place
RemoveMaskKept == mask' = mask
RemoveMask == mask' = NoMask

\* "if test_percentage(...): output_classes.append(cls); training_rasters.append(raster)"
KeepIfCovered(cls, raster) ==
  IF test_percentage(univar_n(raster), loc.total_cells, opt.threshold)
  THEN /\ output_classes' = Append(output_classes, cls)
       /\ training_rasters' = Append(training_rasters, raster)
  ELSE UNCHANGED <<output_classes, training_rasters>>

\* an action of main that changes nothing but what it names
Step(from, to) == pc = from /\ pc' = to /\ status' = status
Register(name) == rm_rasters' = Append(rm_rasters, name)

\* ------------------------------------------------------------- main: water
\* the temporary rasters of main, each named with the process id
tmp ==
  [both_class_water |-> TempName("both_classifications_water", Getpid),
   water_raster |-> TempName("water_raster", Getpid),
   lowveg_class_raster |-> TempName("lowveg_class_raster", Getpid),
   lowveg_mask_raster |-> TempName("lowveg_mask_raster", Getpid),
   lowveg_raster |-> TempName("lowveg_raster", Getpid),
   forest_class_raster |-> TempName("forest_class_raster", Getpid),
   forest_mask_raster |-> TempName("forest_mask_raster", Getpid),
   forest_raster |-> TempName("forest_raster", Getpid),
   baresoil_class_raster |-> TempName("baresoil_class_raster", Getpid),
   baresoil_mask_raster |-> TempName("baresoil_mask_raster", Getpid),
   baresoil_raster |-> TempName("baresoil_raster", Getpid),
   builtup_mask_raster |-> TempName("builtup_mask_raster", Getpid),
   builtup_raster |-> TempName("builtup_raster", Getpid),
   tr_sum |-> TempName("tr_sum", Getpid),
   tmp_mask_new |-> TempName("tmp_mask_new", Getpid),
   tmp_mask_old |-> TempName("tmp_mask_old", Getpid)]

\* "(probav cats) && (gong cats)" when ref_classification_gong is given,
\* "(probav cats)" otherwise; null where the references are hidden
InBothRefs(probav_cats, gong_cats, c) ==
  /\ get_or_string("probav", probav_cats, c)
  /\ (opt.gong => get_or_string("gong", gong_cats, c))

TotalCells ==
  /\ Step("total_cells", "water_mask_calc")
  /\ loc' = [loc EXCEPT !.total_cells = univar_n(ndvi)]
  /\ UNCHANGED <<other, opt, rast, mask, rm_rasters, tmp_mask_old, output_classes,
                 training_rasters, warned, vect>>

WaterMaskCalc ==
  LET exp_water1(c) ==
        IF Hidden(c) THEN Null
        ELSE IF InBothRefs(water_cats_probav, water_cats_gong, c) THEN 1 ELSE Null
  IN  /\ Step("water_mask_calc", "water_mask")
      /\ Register(tmp.both_class_water)
      /\ Mapcalc(tmp.both_class_water, [c \in Cells |-> exp_water1(c)])
      /\ UNCHANGED <<other, opt, mask, tmp_mask_old, loc, output_classes,
                     training_rasters, warned, vect>>

\* r.mask raster=<name> at position from; an existing MASK without --overwrite
\* makes r.mask fail and main end with the exception
MaskStep(from, to, name) ==
  /\ pc = from
  /\ IF CanSetMask
     THEN /\ pc' = to /\ status' = status /\ SetMask(name)
     ELSE /\ Abort("error") /\ UNCHANGED mask
  /\ UNCHANGED <<other, opt, rast, rm_rasters, tmp_mask_old, loc, output_classes,
                 training_rasters, warned, vect>>

UnmaskStep(from, to) ==
  /\ Step(from, to)
  /\ RemoveMask
  /\ UNCHANGED <<other, opt, rast, rm_rasters, tmp_mask_old, loc, output_classes,
                 training_rasters, warned, vect>>

\* "if test_percentage(raster, total_cells, percentage_threshold): ..."; the
\* division n_raster / reference_cells raises ZeroDivisionError on 0 cells
TestStep(from, to, cls, raster) ==
  /\ pc = from
  /\ IF loc.total_cells = 0
     THEN /\ Abort("error") /\ UNCHANGED <<output_classes, training_rasters>>
     ELSE /\ pc' = to /\ status' = status /\ KeepIfCovered(cls, raster)
  /\ UNCHANGED <<other, opt, rast, mask, rm_rasters, tmp_mask_old, loc, warned, vect>>


WaterPercentile ==
  /\ Step("water_perc", "water_calc")
  /\ loc' = [loc EXCEPT !.water_ndwi_perc = get_percentile(ndwi, 25)]
  /\ UNCHANGED <<other, opt, rast, mask, rm_rasters, tmp_mask_old, output_classes,
                 training_rasters, warned, vect>>

WaterCalc ==
  LET water_exp(c) ==
        IF V("ndwi", c) = Null THEN Null
        ELSE IF 4 * V("ndwi", c) >= loc.water_ndwi_perc THEN water[1] ELSE Null
  IN  /\ Step("water_calc", "water_unmask")
      /\ Register(tmp.water_raster)
      /\ Mapcalc(tmp.water_raster, [c \in Cells |-> water_exp(c)])
      /\ UNCHANGED <<other, opt, mask, tmp_mask_old, loc, output_classes,
                     training_rasters, warned, vect>>


\* ---------------------------------------------------- main: low vegetation
LowvegClassCalc ==
  LET exp_lowveg1(c) ==
        IF Hidden(c) THEN Null
        ELSE IF InBothRefs(lowveg_cats_probav, lowveg_cats_gong, c) THEN 1 ELSE 0
  IN  /\ Step("lowveg_class_calc", "lowveg_mask_calc")
      /\ Register(tmp.lowveg_class_raster)
      /\ Mapcalc(tmp.lowveg_class_raster, [c \in Cells |-> exp_lowveg1(c)])
      /\ UNCHANGED <<other, opt, mask, tmp_mask_old, loc, output_classes,
                     training_rasters, warned, vect>>

LowvegMaskCalc ==
  LET eq_lowveg2(c) ==
        IF Hidden(c) THEN Null
        ELSE IF R(tmp.lowveg_class_raster, c) = 1 /\ V("treecov", c) <= treecov_max_lowveg
             THEN 1 ELSE Null
  IN  /\ Step("lowveg_mask_calc", "lowveg_mask")
      /\ Register(tmp.lowveg_mask_raster)
      /\ Mapcalc(tmp.lowveg_mask_raster, [c \in Cells |-> eq_lowveg2(c)])
      /\ UNCHANGED <<other, opt, mask, tmp_mask_old, loc, output_classes,
                     training_rasters, warned, vect>>


\* median NDVI above 0.5: loose threshold (25th), else strict (75th); the
\* variant takes a median of exactly 0.5 as above
LowvegPercentileFrom(median) ==
  IF median >= 4 * ndvi_thresh_lowveg THEN 25 ELSE 75
LowvegPercentileOf(median) ==
  IF median > 4 * ndvi_thresh_lowveg THEN 25 ELSE 75

LowvegMedian ==
  /\ Step("lowveg_median", "lowveg_perc")
  /\ LET median == get_percentile(ndvi, 50)
     IN  loc' = [loc EXCEPT !.lowveg_ndvi_median = median,
                            !.ndvi_percentile_lowveg = LowvegPercentileOf(median)]
  /\ UNCHANGED <<other, opt, rast, mask, rm_rasters, tmp_mask_old, output_classes,
                 training_rasters, warned, vect>>

LowvegPercentile ==
  /\ Step("lowveg_perc", "lowveg_calc")
  /\ loc' = [loc EXCEPT !.lowveg_ndvi_perc =
                          get_percentile(ndvi, loc.ndvi_percentile_lowveg)]
  /\ UNCHANGED <<other, opt, rast, mask, rm_rasters, tmp_mask_old, output_classes,
                 training_rasters, warned, vect>>

LowvegCalc ==
  LET eq_lowveg3(c) ==
        IF V("ndvi", c) = Null THEN Null
        ELSE IF 4 * V("ndvi", c) > loc.lowveg_ndvi_perc THEN low_veg[1] ELSE Null
  IN  /\ Step("lowveg_calc", "lowveg_unmask")
      /\ Register(tmp.lowveg_raster)
      /\ Mapcalc(tmp.lowveg_raster, [c \in Cells |-> eq_lowveg3(c)])
      /\ UNCHANGED <<other, opt, mask, tmp_mask_old, loc, output_classes,
                     training_rasters, warned, vect>>


\* ------------------------------------------------------------ main: forest
ForestClassCalc ==
  LET exp_forest1(c) ==
        IF Hidden(c) THEN Null
        ELSE IF InBothRefs(forest_cats_probav, forest_cats_gong, c) THEN 1 ELSE 0
  IN  /\ Step("forest_class_calc", "forest_mask_calc")
      /\ Register(tmp.forest_class_raster)
      /\ Mapcalc(tmp.forest_class_raster, [c \in Cells |-> exp_forest1(c)])
      /\ UNCHANGED <<other, opt, mask, tmp_mask_old, loc, output_classes,
                     training_rasters, warned, vect>>

ForestMaskCalc ==
  LET eq_forest2(c) ==
        IF Hidden(c) THEN Null
        ELSE IF R(tmp.forest_class_raster, c) = 1 /\ V("treecov", c) >= treecov_min_forest
             THEN 1 ELSE Null
  IN  /\ Step("forest_mask_calc", "forest_mask")
      /\ Register(tmp.forest_mask_raster)
      /\ Mapcalc(tmp.forest_mask_raster, [c \in Cells |-> eq_forest2(c)])
      /\ UNCHANGED <<other, opt, mask, tmp_mask_old, loc, output_classes,
                     training_rasters, warned, vect>>


ForestPercentile ==
  /\ Step("forest_perc", "forest_calc")
  /\ loc' = [loc EXCEPT !.forest_ndvi_perc = get_percentile(ndvi, 25)]
  /\ UNCHANGED <<other, opt, rast, mask, rm_rasters, tmp_mask_old, output_classes,
                 training_rasters, warned, vect>>

ForestCalc ==
  LET eq_forest3(c) ==
        IF V("ndvi", c) = Null THEN Null
        ELSE IF 4 * V("ndvi", c) > loc.forest_ndvi_perc THEN forest[1] ELSE Null
  IN  /\ Step("forest_calc", "forest_unmask")
      /\ Register(tmp.forest_raster)
      /\ Mapcalc(tmp.forest_raster, [c \in Cells |-> eq_forest3(c)])
      /\ UNCHANGED <<other, opt, mask, tmp_mask_old, loc, output_classes,
                     training_rasters, warned, vect>>


\* --------------------------------------------------------- main: bare soil
BaresoilClassCalc ==
  LET exp_baresoil1(c) ==
        IF Hidden(c) THEN Null
        ELSE IF InBothRefs(baresoil_cats_probav, baresoil_cats_gong, c) THEN 1 ELSE 0
  IN  /\ Step("baresoil_class_calc", "baresoil_mask_calc")
      /\ Register(tmp.baresoil_class_raster)
      /\ Mapcalc(tmp.baresoil_class_raster, [c \in Cells |-> exp_baresoil1(c)])
      /\ UNCHANGED <<other, opt, mask, tmp_mask_old, loc, output_classes,
                     training_rasters, warned, vect>>

BaresoilMaskCalc ==
  LET eq_baresoil2(c) ==
        IF Hidden(c) THEN Null
        ELSE IF R(tmp.baresoil_class_raster, c) = 1 /\ V("treecov", c) <= treecov_max_baresoil
             THEN 1 ELSE Null
  IN  /\ Step("baresoil_mask_calc", "baresoil_mask")
      /\ Register(tmp.baresoil_mask_raster)
      /\ Mapcalc(tmp.baresoil_mask_raster, [c \in Cells |-> eq_baresoil2(c)])
      /\ UNCHANGED <<other, opt, mask, tmp_mask_old, loc, output_classes,
                     training_rasters, warned, vect>>


\* median NDVI below 0.3: loose threshold (75th), else strict (25th); the
\* variant takes a median of exactly 0.3 as below
BaresoilPercentileUpTo(median) ==
  IF median <= 4 * ndvi_threshold_baresoil THEN 75 ELSE 25
BaresoilPercentileOf(median) ==
  IF median < 4 * ndvi_threshold_baresoil THEN 75 ELSE 25

BaresoilMedian ==
  /\ Step("baresoil_median", "baresoil_perc")
  /\ LET median == get_percentile(ndvi, 50)
     IN  loc' = [loc EXCEPT !.baresoil_ndvi_median = median,
                            !.ndvi_percentile_baresoil = BaresoilPercentileOf(median)]
  /\ UNCHANGED <<other, opt, rast, mask, rm_rasters, tmp_mask_old, output_classes,
                 training_rasters, warned, vect>>

BaresoilPercentile ==
  /\ Step("baresoil_perc", "baresoil_bsi_perc")
  /\ loc' = [loc EXCEPT !.baresoil_ndvi_perc =
                          get_percentile(ndvi, loc.ndvi_percentile_baresoil)]
  /\ UNCHANGED <<other, opt, rast, mask, rm_rasters, tmp_mask_old, output_classes,
                 training_rasters, warned, vect>>

\* get_percentile(bsi, "25"): without the bsi option r.quantile gets input=""
\* and fails, which ends main while the bare soil MASK is active
BaresoilBsiPercentile ==
  /\ pc = "baresoil_bsi_perc"
  /\ IF opt.bsi = None
     THEN /\ Abort("error") /\ UNCHANGED loc
     ELSE /\ pc' = "baresoil_calc" /\ status' = status
          /\ loc' = [loc EXCEPT !.baresoil_bsi_perc = get_percentile(opt.bsi, 25)]
  /\ UNCHANGED <<other, opt, rast, mask, rm_rasters, tmp_mask_old, output_classes,
                 training_rasters, warned, vect>>

BaresoilCalc ==
  LET eq_baresoil3(c) ==
        IF V("bsi", c) = Null \/ V("ndvi", c) = Null THEN Null
        ELSE IF /\ 4 * V("bsi", c) >= loc.baresoil_bsi_perc
                /\ 4 * V("ndvi", c) <= loc.baresoil_ndvi_perc
             THEN baresoil[1] ELSE Null
  IN  /\ Step("baresoil_calc", "baresoil_unmask")
      /\ Register(tmp.baresoil_raster)
      /\ Mapcalc(tmp.baresoil_raster, [c \in Cells |-> eq_baresoil3(c)])
      /\ UNCHANGED <<other, opt, mask, tmp_mask_old, loc, output_classes,
                     training_rasters, warned, vect>>


\* ---------------------------------------------------------- main: built-up
BuiltupMaskCalc ==
  LET exp_builtup1(c) ==
        IF Hidden(c) THEN Null
        ELSE IF /\ get_or_string("probav", builtup_cats_probav, c)
                /\ V("ghs", c) >= builtup_thresh_ghs
             THEN 1 ELSE Null
  IN  /\ Step("builtup_mask_calc", "builtup_mask")
      /\ Register(tmp.builtup_mask_raster)
      /\ Mapcalc(tmp.builtup_mask_raster, [c \in Cells |-> exp_builtup1(c)])
      /\ UNCHANGED <<other, opt, mask, tmp_mask_old, loc, output_classes,
                     training_rasters, warned, vect>>


BuiltupPercentile ==
  /\ Step("builtup_perc", "builtup_ndbi_perc")
  /\ loc' = [loc EXCEPT !.builtup_ndvi_perc = get_percentile(ndvi, 50)]
  /\ UNCHANGED <<other, opt, rast, mask, rm_rasters, tmp_mask_old, output_classes,
                 training_rasters, warned, vect>>

BuiltupNdbiPercentile ==
  /\ Step("builtup_ndbi_perc", "builtup_calc")
  /\ loc' = [loc EXCEPT !.builtup_ndbi_perc = get_percentile(ndbi, 50)]
  /\ UNCHANGED <<other, opt, rast, mask, rm_rasters, tmp_mask_old, output_classes,
                 training_rasters, warned, vect>>

BuiltupCalc ==
  LET eq_builtup(c) ==
        IF V("ndbi", c) = Null \/ V("ndvi", c) = Null THEN Null
        ELSE IF /\ 4 * V("ndbi", c) >= loc.builtup_ndbi_perc
                /\ 4 * V("ndvi", c) <= loc.builtup_ndvi_perc
             THEN builtup[1] ELSE Null
  IN  /\ Step("builtup_calc", "builtup_unmask")
      /\ Register(tmp.builtup_raster)
      /\ Mapcalc(tmp.builtup_raster, [c \in Cells |-> eq_builtup(c)])
      /\ UNCHANGED <<other, opt, mask, tmp_mask_old, loc, output_classes,
                     training_rasters, warned, vect>>


\* ------------------------------------------- main: masks and tests per class
\* r.mask raster=<mask raster of the class>, before its percentiles are read
ClassSetMask ==
  \E s \in {<<"water_mask", "water_perc", tmp.both_class_water>>,
            <<"lowveg_mask", "lowveg_median", tmp.lowveg_mask_raster>>,
            <<"forest_mask", "forest_perc", tmp.forest_mask_raster>>,
            <<"baresoil_mask", "baresoil_median", tmp.baresoil_mask_raster>>,
            <<"builtup_mask", "builtup_perc", tmp.builtup_mask_raster>>} :
    MaskStep(s[1], s[2], s[3])

\* r.mask -r, after the training raster of the class is written
ClassRemoveMask ==
  \E s \in {<<"water_unmask", "water_test">>,
            <<"lowveg_unmask", "lowveg_test">>,
            <<"forest_unmask", "forest_test">>,
            <<"baresoil_unmask", "baresoil_test">>,
            <<"builtup_unmask", "builtup_test">>} :
    UnmaskStep(s[1], s[2])

\* test_percentage of the training raster of the class
ClassTest ==
  \E s \in {<<"water_test", "lowveg_class_calc", water, tmp.water_raster>>,
            <<"lowveg_test", "forest_class_calc", low_veg, tmp.lowveg_raster>>,
            <<"forest_test", "baresoil_class_calc", forest, tmp.forest_raster>>,
            <<"baresoil_test", "builtup_mask_calc", baresoil, tmp.baresoil_raster>>,
            <<"builtup_test", "merge", builtup, tmp.builtup_raster>>} :
    TestStep(s[1], s[2], s[3], s[4])

\* ------------------------------------------------------------- main: merge
Range(seq) == {seq[i] : i \in 1..Len(seq)}
\* a MASK raster holds 1 in its visible cells
MaskRaster == [c \in Cells |-> IF c \in mask.cells THEN 1 ELSE Null]

\* "tr_sum = if(isnull(r1),0,1) + if(isnull(r2),0,1) + ..."
tr_sum_exp(c) == Cardinality({i \in 1..Len(training_rasters) :
                                R(training_rasters[i], c) # Null})

\* "if len(classes_in_extent) == 0", with a variant that also gives up on one
NoClassOrOne == Len(output_classes) <= 1
NoClassFound == Len(output_classes) = 0

\* len(classes_in_extent) == 0: grass.fatal; == 1: g.copy of the one raster;
\* else the first command of the merge, r.mapcalc of tr_sum
MergeOrCopy ==
  /\ pc = "merge"
  /\ IF NoClassFound
     THEN /\ Abort("fatal")
          /\ UNCHANGED <<rast, rm_rasters>>
     ELSE IF Len(output_classes) = 1
     THEN /\ pc' = "sample" /\ status' = status
          /\ rast' = (output_raster :> rast[training_rasters[1]]) @@ rast
          /\ UNCHANGED rm_rasters
     ELSE /\ pc' = "save_mask" /\ status' = status
          /\ Register(tmp.tr_sum)
          /\ Mapcalc(tmp.tr_sum, [c \in Cells |-> tr_sum_exp(c)])
  /\ UNCHANGED <<other, opt, mask, tmp_mask_old, loc, output_classes,
                 training_rasters, warned, vect>>

\* "save MASK if there is one": g.rename MASK to tmp_mask_old_<pid>
SaveMask ==
  /\ Step("save_mask", "mask_new_calc")
  /\ IF mask.on
     THEN /\ tmp_mask_old' = tmp.tmp_mask_old
          /\ rast' = (tmp.tmp_mask_old :> MaskRaster) @@ rast
          /\ mask' = NoMask
     ELSE UNCHANGED <<tmp_mask_old, rast, mask>>
  /\ UNCHANGED <<other, opt, rm_rasters, loc, output_classes, training_rasters,
                 warned, vect>>

MaskNewCalc ==
  LET tmp_mask_new_exp(c) ==
        IF R(tmp.tr_sum, c) = Null THEN Null
        ELSE IF R(tmp.tr_sum, c) = 1 THEN 1 ELSE Null
  IN  /\ Step("mask_new_calc", "merge_mask")
      /\ Register(tmp.tmp_mask_new)
      /\ Mapcalc(tmp.tmp_mask_new, [c \in Cells |-> tmp_mask_new_exp(c)])
      /\ UNCHANGED <<other, opt, mask, tmp_mask_old, loc, output_classes,
                     training_rasters, warned, vect>>

\* grass.run_command("r.mask", raster=tr_sum): every cell of tr_sum is
\* non-null (0, 1, 2, ...), so this MASK hides no cell
merge_mask_raster == tmp.tr_sum

MergeSetMask == MaskStep("merge_mask", "warn", merge_mask_raster)

\* "test if there are enough pixels inside the training classes"
TooFew(raster) == univar_n(raster) < opt.npoints

WarnTooFew ==
  /\ Step("warn", "patch")
  /\ warned' = {r \in Range(training_rasters) : TooFew(r)}
  /\ UNCHANGED <<other, opt, rast, mask, rm_rasters, tmp_mask_old, loc,
                 output_classes, training_rasters, vect>>

\* r.patch: in each cell the first non-null value in the order of the inputs
patch(rasters, c) ==
  LET hit == {i \in 1..Len(rasters) : R(rasters[i], c) # Null}
  IN  IF hit = {} THEN Null
      ELSE R(rasters[CHOOSE i \in hit : \A j \in hit : i <= j], c)

Patch ==
  LET patch_exp(c) == patch(training_rasters, c)
  IN  /\ Step("patch", "merge_unmask")
      /\ Mapcalc(output_raster, [c \in Cells |-> patch_exp(c)])
      /\ UNCHANGED <<other, opt, mask, rm_rasters, tmp_mask_old, loc, output_classes,
                     training_rasters, warned, vect>>

MergeRemoveMask == UnmaskStep("merge_unmask", "reactivate")

\* "reactivate mask if there was one before"
Reactivate ==
  /\ Step("reactivate", "sample")
  /\ IF tmp_mask_old # None THEN SetMask(tmp_mask_old) ELSE UNCHANGED mask
  /\ UNCHANGED <<other, opt, rast, rm_rasters, tmp_mask_old, loc, output_classes,
                 training_rasters, warned, vect>>

\* ---------------------------------------------------- main: extract points
\* r.sample.category: npoints random points in every category of the input.
\* What it does with a category of fewer than npoints cells differs between
\* its versions: it skips the category or takes every cell of it (a third
\* outcome, the command failing, is CommandFails).
Categories(name) == {Seen(name, c) : c \in NonNull(name)}
CellsOf(name, cat) == Cardinality({c \in Cells : Seen(name, c) = cat})
sample_category(name, n, short) ==
  [cat \in Categories(name) |->
     IF CellsOf(name, cat) >= n THEN n
     ELSE IF short = "all" THEN CellsOf(name, cat) ELSE 0]

\* "npoints=npoints" of the r.sample.category call, and one too many
sample_npoints_plus_one == opt.npoints + 1
sample_npoints == opt.npoints

SampleCategory ==
  /\ Step("sample", "rename_column")
  /\ \E short \in {"skip", "all"} :
       vect' = [on |-> TRUE, cols |-> {"output_raster"}, label |-> <<>>,
                pts |-> sample_category(output_raster, sample_npoints, short)]
  /\ UNCHANGED <<other, opt, rast, mask, rm_rasters, tmp_mask_old, loc,
                 output_classes, training_rasters, warned>>

RenameColumn ==
  /\ Step("rename_column", "add_column")
  /\ vect' = [vect EXCEPT !.cols = (@ \ {"output_raster"}) \cup {"int_column"}]
  /\ UNCHANGED <<other, opt, rast, mask, rm_rasters, tmp_mask_old, loc,
                 output_classes, training_rasters, warned>>

AddColumn ==
  /\ Step("add_column", "update")
  /\ vect' = [vect EXCEPT !.cols = @ \cup {"str_column"}]
  /\ UNCHANGED <<other, opt, rast, mask, rm_rasters, tmp_mask_old, loc,
                 output_classes, training_rasters, warned>>

\* "for out_class in output_classes: v.db.update ... where int_column = code":
\* the points of a code get the label of that class; main returns after it
UpdateLabels ==
  /\ pc = "update"
  /\ pc' = "exit"
  /\ status' = "ok"
  /\ vect' = [vect EXCEPT !.label =
       [cat \in DOMAIN vect.pts |->
          IF \E i \in 1..Len(output_classes) : output_classes[i][1] = cat
          THEN LET i == CHOOSE i \in 1..Len(output_classes) : output_classes[i][1] = cat
               IN  output_classes[i][2]
          ELSE ""]]
  /\ UNCHANGED <<other, opt, rast, mask, rm_rasters, tmp_mask_old, loc,
                 output_classes, training_rasters, warned>>

\* ------------------------------------------------------- failure and exit
MainPcs == {"total_cells",
  "water_mask_calc", "water_mask", "water_perc", "water_calc", "water_unmask", "water_test",
  "lowveg_class_calc", "lowveg_mask_calc", "lowveg_mask", "lowveg_median", "lowveg_perc",
  "lowveg_calc", "lowveg_unmask", "lowveg_test",
  "forest_class_calc", "forest_mask_calc", "forest_mask", "forest_perc", "forest_calc",
  "forest_unmask", "forest_test",
  "baresoil_class_calc", "baresoil_mask_calc", "baresoil_mask", "baresoil_median",
  "baresoil_perc", "baresoil_bsi_perc", "baresoil_calc", "baresoil_unmask", "baresoil_test",
  "builtup_mask_calc", "builtup_mask", "builtup_perc", "builtup_ndbi_perc", "builtup_calc",
  "builtup_unmask", "builtup_test",
  "merge", "save_mask", "mask_new_calc", "merge_mask", "warn", "patch", "merge_unmask",
  "reactivate", "sample", "rename_column", "add_column", "update"}

\* grass.run_command / parse_command raise CalledModuleError when the
\* external command fails, at whatever step that runs one; main ends there
RunsCommand ==
  /\ pc \in MainPcs
  /\ pc = "merge" => ~NoClassFound
  /\ pc = "save_mask" => mask.on
  /\ pc = "reactivate" => tmp_mask_old # None

CommandFails ==
  /\ RunsCommand
  /\ Abort("error")
  /\ UNCHANGED <<other, opt, rast, mask, rm_rasters, tmp_mask_old, loc,
                 output_classes, training_rasters, warned, vect>>

\* g.remove -f (without -b) leaves a raster alone that is the base map of a
\* reclassed map, here of the MASK that r.mask made from it
g_remove_refused(name) == mask.on /\ mask.base = name

\* cleanup(), registered with atexit: remove the rasters of rm_rasters that
\* exist, then remove a MASK, then reactivate the old one
Cleanup ==
  /\ pc = "exit"
  /\ pc' = "exited"
  /\ LET removed == {n \in Range(rm_rasters) \cap DOMAIN rast : ~g_remove_refused(n)}
     IN  rast' = [n \in DOMAIN rast \ removed |-> rast[n]]
  /\ mask' = IF tmp_mask_old # None
             THEN [on |-> TRUE, cells |-> {c \in Cells : rast[tmp_mask_old][c] # Null},
                   base |-> tmp_mask_old, user |-> FALSE]
             ELSE NoMask
  /\ UNCHANGED <<other, opt, rm_rasters, tmp_mask_old, loc, output_classes,
                 training_rasters, warned, vect, status>>

NextAuto ==
  \/ TotalCells \/ ClassSetMask \/ ClassRemoveMask \/ ClassTest
  \/ WaterMaskCalc \/ WaterPercentile \/ WaterCalc \/ LowvegClassCalc
  \/ LowvegMaskCalc \/ LowvegMedian \/ LowvegPercentile \/ LowvegCalc
  \/ ForestClassCalc \/ ForestMaskCalc \/ ForestPercentile \/ ForestCalc
  \/ BaresoilClassCalc \/ BaresoilMaskCalc \/ BaresoilMedian \/ BaresoilPercentile
  \/ BaresoilBsiPercentile \/ BaresoilCalc \/ BuiltupMaskCalc \/ BuiltupPercentile
  \/ BuiltupNdbiPercentile \/ BuiltupCalc \/ MergeOrCopy \/ SaveMask
  \/ MaskNewCalc \/ MergeSetMask \/ WarnTooFew \/ Patch
  \/ MergeRemoveMask \/ Reactivate \/ SampleCategory \/ RenameColumn
  \/ AddColumn \/ UpdateLabels \/ CommandFails \/ Cleanup


\* =================================================== claims: autotraining
\* raw content of a raster of the mapset, whatever MASK is active
CountOf(name) == Cardinality({c \in Cells : rast[name][c] # Null})
Exists(name) == name \in DOMAIN rast
\* the process has ended: main is over and the atexit cleanup has run
Exited == pc = "exited"

\* C1: a MASK that is active when the run starts is active again, with the
\* same content, once the process has ended, on every exit path.
C1_UserMaskRestored ==
  (Exited /\ opt.mask0.on) => (mask.on /\ mask.cells = opt.mask0.cells)

\* the training rasters that are non-null in a cell
ClassesAt(c) == {i \in 1..Len(training_rasters) : rast[training_rasters[i]][c] # Null}

\* C2: with two or more classes found, every cell of output_raster that
\* carries a class code is non-null in exactly one training raster, and a
\* cell that qualifies for two or more classes is null in output_raster.
C2_MergedWithoutOverlap ==
  (Len(training_rasters) >= 2 /\ Exists(output_raster) /\ ~Exited) =>
    \A c \in Cells :
      /\ rast[output_raster][c] # Null => Cardinality(ClassesAt(c)) = 1
      /\ Cardinality(ClassesAt(c)) >= 2 => rast[output_raster][c] = Null

\* C3: on every exit path, once the atexit cleanup has run, no raster with
\* the _<pid> suffix exists any more and no MASK made by the run is active.
C3_NoTemporaryLeft ==
  Exited => /\ \A n \in DOMAIN rast : ~HasPid(n, Getpid)
            /\ ~(mask.on /\ ~mask.user)

\* C5: with no class passing the coverage test the run ends in the fatal
\* error and creates neither output_raster nor output_vector; with at least
\* one class it does not take the fatal path.
C5_FatalIffNoClass ==
  /\ [](status = "fatal" =>
         (~Exists(output_raster) /\ ~vect.on /\ Len(output_classes) = 0))
  /\ [][/\ (pc = "merge" /\ Len(output_classes) = 0) =>
            (status' = "fatal" /\ pc' = "exit")
        /\ (status # "fatal" /\ status' = "fatal") =>
            (pc = "merge" /\ Len(output_classes) = 0)]_vars

\* C5 happens: a run took the fatal path with an empty class list and ended
C5_Witness == Exited /\ status = "fatal" /\ Len(output_classes) = 0

\* the five classes with the raster each is tested on
ClassRasters == {<<water, tmp.water_raster>>, <<low_veg, tmp.lowveg_raster>>,
                 <<forest, tmp.forest_raster>>, <<baresoil, tmp.baresoil_raster>>,
                 <<builtup, tmp.builtup_raster>>}
\* main has evaluated all five coverage tests
AllTested == pc = "exit" /\ status \in {"ok", "fatal"}

\* C6: a class is kept if and only if its training raster covers at least
\* percentage_threshold percent of the total cells (n * 100 >= threshold *
\* total_cells), a class covering exactly the threshold included.
C6_KeptIffAtLeastThreshold ==
  AllTested =>
    \A cr \in ClassRasters :
      (cr[1] \in Range(output_classes)) <=>
        test_percentage_at_least(CountOf(cr[2]), loc.total_cells, opt.threshold)

\* number of point features of output_vector
NumPoints ==
  LET P(cat) == IF cat \in DOMAIN vect.pts THEN vect.pts[cat] ELSE 0
  IN  P(water[1]) + P(low_veg[1]) + P(forest[1]) + P(builtup[1]) + P(baresoil[1])
\* cells of output_raster that carry the code of a class
OutputCellsOf(cls) == Cardinality({c \in Cells : rast[output_raster][c] = cls[1]})
Succeeded == status = "ok"

\* C7 as claimed: after a successful run output_vector has exactly
\* npoints * k point features, k the number of classes found.
C7_ExactlyNpointsPerClass ==
  Succeeded => NumPoints = opt.npoints * Len(output_classes)

\* C7 as it holds: after a successful run output_vector has at most
\* npoints * k point features, and exactly npoints * k when every class
\* found occupies at least npoints cells of output_raster.
C7_NpointsPerPopulatedClass ==
  Succeeded =>
    /\ NumPoints <= opt.npoints * Len(output_classes)
    /\ (\A i \in 1..Len(output_classes) :
          OutputCellsOf(output_classes[i]) >= opt.npoints)
       => NumPoints = opt.npoints * Len(output_classes)

\* C7 happens: a successful run with two classes, each populated enough,
\* sampled npoints points per class
C7_Witness ==
  /\ Succeeded /\ Exited
  /\ Len(output_classes) >= 2
  /\ \A i \in 1..Len(output_classes) : OutputCellsOf(output_classes[i]) >= opt.npoints
  /\ NumPoints = opt.npoints * Len(output_classes)

\* main is past the merge (or copy) of the training rasters
PastMerge == pc \in {"sample", "rename_column", "add_column", "update"} \/ Succeeded

\* C8: for every class found whose training raster has fewer than npoints
\* non-null cells a warning is emitted, with one class found as with
\* several, and the run still produces output_raster and output_vector.
C8_WarnedAndContinued ==
  /\ PastMerge =>
       \A r \in Range(training_rasters) : CountOf(r) < opt.npoints => r \in warned
  /\ Succeeded => Exists(output_raster) /\ vect.on

\* ======================================= i.sentinel_2.parallel.index, main
\* largest mp.cpu_count() tried
MaxCpu == 3
\* the nprocs option: an integer, -2 unless given
DefaultNprocs == -2
NprocsOptions == DefaultNprocs..(MaxCpu + 1)
CpuCounts == 1..MaxCpu
\* options: NDVI,NDWI,NDBI,BSI,asm
Indexes == {"NDVI", "NDWI", "NDBI", "BSI", "asm"}
\* an external command that was started, with the process count handed to it
\* (0 when the command takes none)
Command(cmd, processes) == [cmd |-> cmd, processes |-> processes]
NoFormula == <<>>
\* largest value of a band in the cell that is followed through the formula
MaxBand == 3
\* options red, green, blue, nir, swir
Bands == {"red", "green", "blue", "nir", "swir"}

\* px.cell: the values of the bands in one cell of the region and the value
\* the map-algebra command wrote there (Null before it ran)
IdlePx == [pc |-> "idle", index |-> "NDVI", nprocs |-> DefaultNprocs, cpu |-> 1,
           tiled |-> FALSE, red |-> FALSE, nir |-> FALSE, formula |-> NoFormula,
           started |-> <<>>, rm_rasters |-> <<>>, status |-> "idle",
           cell |-> [bands |-> [b \in Bands |-> 0], value |-> Null]]

\* a run with its options: the index, nprocs, whether <red> and <nir> are
\* set, the CPUs of the machine, whether r.mapcalc.tiled is installed
InitPx ==
  px \in {[IdlePx EXCEPT !.pc = "find_program", !.status = "running",
                         !.index = i, !.nprocs = n, !.cpu = k,
                         !.tiled = t, !.red = r, !.nir = ni] :
            i \in Indexes, n \in NprocsOptions, k \in CpuCounts,
            t \in BOOLEAN, r \in BOOLEAN, ni \in BOOLEAN}

PxFatal == [px EXCEPT !.pc = "exit", !.status = "fatal"]

\* if not grass.find_program("r.mapcalc.tiled", "--help"): grass.fatal
ParFindProgram ==
  /\ px.pc = "find_program"
  /\ px' = IF ~px.tiled THEN PxFatal ELSE [px EXCEPT !.pc = "test_nprocs"]
  /\ UNCHANGED <<autoVars, vx, nameVars, toolVars>>

\* if nprocs > mp.cpu_count(): grass.fatal
ParTestNprocs ==
  /\ px.pc = "test_nprocs"
  /\ px' = IF px.nprocs > px.cpu THEN PxFatal ELSE [px EXCEPT !.pc = "index"]
  /\ UNCHANGED <<autoVars, vx, nameVars, toolVars>>

\* the bands of the normalized difference (a - b) / (a + b) of an index
FormulaOf(index) ==
  IF index = "NDVI" THEN <<{"nir"}, {"red"}>>
  ELSE IF index = "NDWI" THEN <<{"green"}, {"nir"}>>
  ELSE IF index = "NDBI" THEN <<{"swir"}, {"nir"}>>
  ELSE <<{"swir", "red"}, {"nir", "blue"}>>

pca_name(p) == TempName("pca", p)
\* pca_<pid>.1 .. pca_<pid>.4
pca_rasters(p) == [k \in 1..4 |-> <<"pca", p, k>>]

\* the if / elif chain on the index: builds the formula, or for asm runs
\* i.pca; "if not red and nir" is fatal for NDVI
ParIndex ==
  /\ px.pc = "index"
  /\ px' = IF px.index = "NDVI"
           THEN IF ~px.red /\ px.nir THEN PxFatal
                ELSE [px EXCEPT !.formula = FormulaOf("NDVI"), !.pc = "dispatch"]
           ELSE IF px.index \in {"NDWI", "NDBI", "BSI"}
           THEN [px EXCEPT !.formula = FormulaOf(px.index), !.pc = "dispatch"]
           ELSE IF px.index = "asm"
           THEN [px EXCEPT !.rm_rasters = @ \o pca_rasters(Getpid),
                           !.started = Append(@, Command("i.pca", 0)),
                           !.pc = "texture"]
           ELSE PxFatal
  /\ UNCHANGED <<autoVars, vx, nameVars, toolVars>>

\* "if nprocs > 1": the tiled, parallel command with processes=nprocs,
\* else the single-process command
Dispatch(tiled_cmd, single_cmd, nprocs) ==
  IF nprocs > 1 THEN Command(tiled_cmd, nprocs) ELSE Command(single_cmd, 0)
ParTexture ==
  /\ px.pc = "texture"
  /\ px' = [px EXCEPT !.started = Append(@, Dispatch("r.texture.tiled", "r.texture",
                                                     px.nprocs)),
                      !.pc = "dispatch"]
  /\ UNCHANGED <<autoVars, vx, nameVars, toolVars>>

\* a band the formula names whose option is empty makes the expression
\* invalid: r.mapcalc fails and main ends with the exception
BandSet(b) == IF b = "red" THEN px.red ELSE IF b = "nir" THEN px.nir ELSE TRUE
FormulaValid == \A b \in px.formula[1] \cup px.formula[2] : BandSet(b)

\* the value of "round(255 * (1.0 + (a - b)/float((a + b)))/2.0)" in a cell
\* with the integer values a and b, as the set of values r.mapcalc can
\* write.  255 * (1 + d) / 2 is 255 * a / (a + b); round() is floor(x + 0.5);
\* a + b = 0 gives null.  float() is single precision: where x lies exactly
\* between two integers and d = (a - b) / (a + b) has no exact float (a # b),
\* the rounded d puts x on either side.
mapcalc_index_truncated(a, b) ==
  IF a + b = 0 THEN {Null} ELSE {(255 * a) \div (a + b)}
mapcalc_index(a, b) ==
  IF a + b = 0 THEN {Null}
  ELSE LET up == (510 * a + (a + b)) \div (2 * (a + b))
       IN  IF (510 * a) % (2 * (a + b)) = a + b /\ a # b THEN {up - 1, up} ELSE {up}

\* "if index != 'asm'": r.mapcalc.tiled or r.mapcalc on the formula, followed
\* in one cell: the bands of the formula have any values there
ParDispatch ==
  /\ px.pc = "dispatch"
  /\ IF px.index # "asm" /\ FormulaValid
     THEN \E b \in [Bands -> 0..MaxBand] :
            LET sum(S) == (IF "red" \in S THEN b["red"] ELSE 0)
                          + (IF "green" \in S THEN b["green"] ELSE 0)
                          + (IF "blue" \in S THEN b["blue"] ELSE 0)
                          + (IF "nir" \in S THEN b["nir"] ELSE 0)
                          + (IF "swir" \in S THEN b["swir"] ELSE 0)
            IN  /\ \A band \in Bands \ (px.formula[1] \cup px.formula[2]) : b[band] = 0
                /\ \E v \in mapcalc_index(sum(px.formula[1]), sum(px.formula[2])) :
                     px' = [px EXCEPT !.started = Append(@, Dispatch("r.mapcalc.tiled",
                                                        "r.mapcalc", px.nprocs)),
                                      !.pc = "exit", !.status = "ok",
                                      !.cell = [bands |-> b, value |-> v]]
     ELSE px' = IF px.index # "asm"
                THEN [px EXCEPT !.started = Append(@, Dispatch("r.mapcalc.tiled",
                                                      "r.mapcalc", px.nprocs)),
                                !.pc = "exit", !.status = "error"]
                ELSE [px EXCEPT !.pc = "exit", !.status = "ok"]
  /\ UNCHANGED <<autoVars, vx, nameVars, toolVars>>

\* cleanup(): g.remove of the rasters of rm_rasters that exist
ParCleanup ==
  /\ px.pc = "exit"
  /\ px' = [px EXCEPT !.pc = "exited"]
  /\ UNCHANGED <<autoVars, vx, nameVars, toolVars>>

\* =========================================== i.sentinel_2.vrt.index, main
NoQueue == [on |-> FALSE, nprocs |-> 0]
\* the indices option, a list: the default and some others
IndicesOptions == {<<"NDVI", "NDWI", "NDBI", "BSI", "asm">>, <<"NDVI">>,
                   <<"NDVI", "None">>, <<"None">>}

IdleVx == [pc |-> "idle", indices |-> <<"None">>, nprocs |-> DefaultNprocs, cpu |-> 1,
           found |-> FALSE, installed |-> FALSE, vrts |-> FALSE,
           queue |-> NoQueue, put |-> <<>>, procs |-> <<>>, temp_region |-> FALSE,
           region |-> "start", warned |-> FALSE, status |-> "idle"]

\* found: grass.find_program("i.sentinel.parallel.index") succeeds;
\* installed: the module that is run, i.sentinel_2.parallel.index, exists
InitVx ==
  vx \in {[IdleVx EXCEPT !.pc = "find_program", !.status = "running",
                         !.indices = i, !.nprocs = n, !.cpu = k,
                         !.found = f, !.installed = m] :
            i \in IndicesOptions, n \in NprocsOptions, k \in CpuCounts,
            f \in BOOLEAN, m \in BOOLEAN}

VxEnd(how) == [vx EXCEPT !.pc = "exit", !.status = how]

\* if not grass.find_program("i.sentinel.parallel.index", "--help"): grass.fatal
VrtFindProgram ==
  /\ vx.pc = "find_program"
  /\ vx' = IF ~vx.found THEN VxEnd("fatal") ELSE [vx EXCEPT !.pc = "test_nprocs"]
  /\ UNCHANGED <<autoVars, px, nameVars, toolVars>>

\* if nprocs > mp.cpu_count(): grass.warning; nprocs = mp.cpu_count() - 1
VrtTestNprocs ==
  /\ vx.pc = "test_nprocs"
  /\ vx' = IF vx.nprocs > vx.cpu
           THEN [vx EXCEPT !.warned = TRUE, !.nprocs = vx.cpu - 1, !.pc = "vrts"]
           ELSE [vx EXCEPT !.pc = "vrts"]
  /\ UNCHANGED <<autoVars, px, nameVars, toolVars>>

\* the loop over the bands: r.buildvrt or g.copy for each
VrtBuildVrts ==
  /\ vx.pc = "vrts"
  /\ vx' = [vx EXCEPT !.vrts = TRUE, !.pc = "indices"]
  /\ UNCHANGED <<autoVars, px, nameVars, toolVars>>

InSeq(x, seq) == \E i \in 1..Len(seq) : seq[i] = x

\* if "None" not in indices: ParallelModuleQueue(nprocs=nprocs),
\* grass.use_temp_region(), g.region.  The queue keeps a list of nprocs
\* slots; for nprocs = 0 it takes the CPU count instead or, in older
\* versions, keeps 0.  g.region changes the temporary region only.
VrtStartQueue ==
  /\ vx.pc = "indices"
  /\ \E slots \in IF vx.nprocs = 0 THEN {0, vx.cpu} ELSE {vx.nprocs} :
       vx' = IF ~InSeq("None", vx.indices)
             THEN [vx EXCEPT !.queue = [on |-> TRUE, nprocs |-> slots],
                             !.temp_region = TRUE, !.region = "index", !.pc = "put"]
             ELSE VxEnd("ok")
  /\ UNCHANGED <<autoVars, px, nameVars, toolVars>>

\* for index in indices: Module("i.sentinel_2.parallel.index", run_=False,
\* nprocs=1, ...); queue_index.put(index_proc).  Module() raises when the
\* module is not installed.  put() stores the module in the next slot of the
\* queue (IndexError when there is none), starts it and, with the last slot
\* taken, waits for the whole list.
VrtPut ==
  /\ vx.pc = "put"
  /\ Len(vx.put) < Len(vx.indices)
  /\ vx' = IF ~vx.installed \/ Len(vx.procs) >= vx.queue.nprocs THEN VxEnd("error")
           ELSE [vx EXCEPT !.put = Append(@, vx.indices[Len(vx.put) + 1]),
                           !.procs = Append(@, "running"),
                           !.pc = IF Len(vx.procs) + 1 = vx.queue.nprocs
                                  THEN "wait" ELSE "put"]
  /\ UNCHANGED <<autoVars, px, nameVars, toolVars>>

\* an index process that was started ends, well or with an error, whatever
\* main is doing
VrtProcEnds ==
  /\ \E i \in DOMAIN vx.procs, how \in {"done", "failed"} :
       /\ vx.procs[i] = "running"
       /\ vx' = [vx EXCEPT !.procs[i] = how]
  /\ UNCHANGED <<autoVars, px, nameVars, toolVars>>

\* queue_index.wait(), inside put() and after the loop: wait for the
\* processes of the list in turn; the wait for one that failed raises
\* CalledModuleError and leaves the later ones alone.  After the last wait
\* grass.del_temp_region().
VrtWait ==
  /\ \/ vx.pc = "wait"
     \/ vx.pc = "put" /\ Len(vx.put) = Len(vx.indices)
  /\ \E n \in 0..Len(vx.procs) :
       /\ \A i \in 1..n : vx.procs[i] = "done"
       /\ IF n < Len(vx.procs)
          THEN vx.procs[n + 1] = "failed" /\ vx' = VxEnd("error")
          ELSE vx' = IF vx.pc = "wait" THEN [vx EXCEPT !.procs = <<>>, !.pc = "put"]
                     ELSE [VxEnd("ok") EXCEPT !.procs = <<>>, !.temp_region = FALSE,
                                              !.region = "start"]
  /\ UNCHANGED <<autoVars, px, nameVars, toolVars>>

\* cleanup(): remove rm_regions, delete a dangling temporary region
VrtCleanup ==
  /\ vx.pc = "exit"
  /\ vx' = [vx EXCEPT !.pc = "exited", !.temp_region = FALSE, !.region = "start"]
  /\ UNCHANGED <<autoVars, px, nameVars, toolVars>>

NextIndex ==
  \/ ParFindProgram \/ ParTestNprocs \/ ParIndex \/ ParTexture \/ ParDispatch
  \/ ParCleanup
  \/ VrtFindProgram \/ VrtTestNprocs \/ VrtBuildVrts \/ VrtStartQueue
  \/ VrtPut \/ VrtProcEnds \/ VrtWait \/ VrtCleanup

\* ================================= temporary layers of two runs, one mapset
\* number of runs that work in the mapset at the same time
NRuns == 2
\* the process ids of the runs: 1 .. NRuns
Pids == 1..NRuns
Scripts == {"autotraining", "ndvidiff", "parallel.index"}

\* A layer of the mapset: its element type and its name, the name as the
\* text parts the script puts together and the process id formatted into it
\* (0 when the name holds none).
Layer(kind, parts, p) == [kind |-> kind, parts |-> parts, pid |-> p]
\* a step of a script that puts a name on a removal list; made: the layer is
\* also created in the configuration modelled
Temp(layer) == [layer |-> layer, made |-> TRUE]
Listed(layer) == [layer |-> layer, made |-> FALSE]
OfName(kind, name) == Layer(kind, <<name[1]>>, name[2])

\* i.sentinel_2.autotraining: rm_rasters in the order of main, and the MASK
\* that r.mask creates in the mapset
AutoTemps(p) ==
  << Temp(OfName("raster", TempName("both_classifications_water", p))),
     Temp(OfName("raster", MASK)),
     Temp(OfName("raster", TempName("water_raster", p))),
     Temp(OfName("raster", TempName("lowveg_class_raster", p))),
     Temp(OfName("raster", TempName("lowveg_mask_raster", p))),
     Temp(OfName("raster", TempName("lowveg_raster", p))),
     Temp(OfName("raster", TempName("forest_class_raster", p))),
     Temp(OfName("raster", TempName("forest_mask_raster", p))),
     Temp(OfName("raster", TempName("forest_raster", p))),
     Temp(OfName("raster", TempName("baresoil_class_raster", p))),
     Temp(OfName("raster", TempName("baresoil_mask_raster", p))),
     Temp(OfName("raster", TempName("baresoil_raster", p))),
     Temp(OfName("raster", TempName("builtup_mask_raster", p))),
     Temp(OfName("raster", TempName("builtup_raster", p))),
     Temp(OfName("raster", TempName("tr_sum", p))),
     Temp(OfName("raster", TempName("tmp_mask_new", p))) >>

\* i.sentinel_2.parallel.index, index asm: pca_<pid>.1 .. pca_<pid>.4
ParTemps(p) ==
  << Temp(Layer("raster", <<"pca", ".1">>, p)), Temp(Layer("raster", <<"pca", ".2">>, p)),
     Temp(Layer("raster", <<"pca", ".3">>, p)), Temp(Layer("raster", <<"pca", ".4">>, p)) >>

\* i.sentinel_2.ndvidiff, one time step x ("0" or "1"): strds_name is
\* f"s2_timestep{x}", without a process id, and every other name of the
\* step is built on it
strds_name(x) == <<"s2_timestep", x>>
NdviStepTemps(x, clouds) ==
  << Temp(Layer("strds", strds_name(x), 0)) >>
  \o (IF clouds
      THEN << Temp(Layer("strds", strds_name(x) \o <<"_clouds_sen2cor">>, 0)),
              Temp(Layer("strds", strds_name(x) \o <<"_clouds_rast">>, 0)),
              Temp(Layer("strds", strds_name(x) \o <<"_shadows_rast">>, 0)),
              Temp(Layer("strds", strds_name(x) \o <<"_clouds_rast", "_combined">>, 0)) >>
      ELSE << >>)
  \o << Temp(Layer("strds", strds_name(x) \o <<"_B04">>, 0)),
        Temp(Layer("strds", strds_name(x) \o <<"_B08">>, 0)),
        Temp(Layer("raster", strds_name(x) \o <<"_B04", "_aggregated">>, 0)),
        Temp(Layer("raster", strds_name(x) \o <<"_B08", "_aggregated">>, 0)),
        Listed(Layer("group", <<"rgbi_s2_timestep", x>>, 0)),
        Temp(Layer("raster", strds_name(x) \o <<"_ndvi">>, 0)) >>

\* i.sentinel_2.ndvidiff with only ndvi_loss_map_vect named by the user: the
\* saved region, both time steps, the difference and loss rasters, the MASK
\* of the AOI
NdviTemps(p, clouds) ==
  << Temp(Layer("region", <<"cur_region">>, p)) >>
  \o NdviStepTemps("0", clouds) \o NdviStepTemps("1", clouds)
  \o << Temp(Layer("raster", <<"ndvi_diff_map">>, p)),
        Temp(Layer("raster", <<"ndvi_loss_map">>, p)),
        Temp(OfName("raster", MASK)) >>

TempsOf(script, p, clouds) ==
  IF script = "autotraining" THEN AutoTemps(p)
  ELSE IF script = "parallel.index" THEN ParTemps(p)
  ELSE NdviTemps(p, clouds)

IdleRuns == [p \in Pids |-> [script |-> "autotraining", clouds |-> FALSE, i |-> 0,
                             done |-> TRUE]]

\* flag c only exists for ndvidiff
InitNames ==
  /\ runs \in [Pids -> {r \in [script : Scripts, clouds : BOOLEAN, i : {0}, done : {FALSE}] :
                          r.clouds => r.script = "ndvidiff"}]
  /\ mapset = {}

MyTemps(p) == TempsOf(runs[p].script, p, runs[p].clouds)
\* the layers run p has put on its removal lists so far
Registered(p) == {MyTemps(p)[k].layer : k \in 1..runs[p].i}

\* the next step of run p that names a temporary layer: the name goes on the
\* removal list and the command that writes the layer runs
NameCreate(p) ==
  /\ ~runs[p].done
  /\ runs[p].i < Len(MyTemps(p))
  /\ LET t == MyTemps(p)[runs[p].i + 1]
     IN  mapset' = IF t.made THEN mapset \cup {t.layer} ELSE mapset
  /\ runs' = [runs EXCEPT ![p].i = @ + 1]
  /\ UNCHANGED <<autoVars, indexVars, toolVars>>

\* cleanup() of run p, at the end of main or after a failure: every layer on
\* its removal lists that exists is removed
NameCleanup(p) ==
  /\ ~runs[p].done
  /\ mapset' = mapset \ Registered(p)
  /\ runs' = [runs EXCEPT ![p].done = TRUE]
  /\ UNCHANGED <<autoVars, indexVars, toolVars>>

NextNames == \E p \in Pids : NameCreate(p) \/ NameCleanup(p)

\* no run of i.sentinel_2.autotraining
InitAutoIdle ==
  /\ opt = [region |-> [c \in Cells |-> 1], threshold |-> 0, npoints |-> 1,
            bsi |-> None, gong |-> FALSE, mask0 |-> NoMask, overwrite |-> FALSE]
  /\ pc = "exited" /\ rast = <<>> /\ mask = NoMask /\ rm_rasters = <<>>
  /\ tmp_mask_old = None /\ loc = NoLoc /\ output_classes = <<>>
  /\ training_rasters = <<>> /\ warned = {} /\ vect = NoVect /\ status = "idle"

\* ===================================================== i.sentinel_2.sen2cor
\* sx.opt: the options and what the run finds on the machine.  out_has_input:
\* output_dir is the directory that holds the input scene; home_sen2cor: a
\* sen2cor directory exists in the home directory.
\* sx.gipp: <<>> or <<the Nr_Threads text written to the modified GIPP>>.
\* sx.input_exists, sx.output_exists: the input scene, and a product of the
\* same date block in output_dir, on disk.  sx.attempted: what cleanup tried
\* to remove.
\* a run of i.sentinel_2.sen2cor starts; the other scripts do not run
InitSen ==
  /\ InitAutoIdle /\ px = IdlePx /\ vx = IdleVx /\ runs = IdleRuns /\ mapset = {}
  /\ nx = [pc |-> "idle"]
  /\ \E o \in [nprocs : NprocsOptions, cpu : CpuCounts, flag_r : BOOLEAN,
              sen2cor_isdir : BOOLEAN, help_ok : BOOLEAN, input_isdir : BOOLEAN,
              input_safe : BOOLEAN, gipp_found : BOOLEAN, out_has_input : BOOLEAN,
              home_sen2cor : BOOLEAN] :
       sx = [pc |-> "checks", opt |-> o, status |-> "running", nprocs |-> o.nprocs,
             gipp |-> <<>>, started |-> FALSE, successful |-> FALSE,
             rm_files |-> <<>>, rm_folders |-> <<>>, rel_dem_dir |-> FALSE,
             input_exists |-> o.input_isdir, output_exists |-> FALSE,
             cleanup |-> "none", attempted |-> {}]

\* grass.fatal, or an exception nobody catches: main ends, cleanup follows
SxEnd(how) == [sx EXCEPT !.pc = "exit", !.status = how]

\* "os.path.isdir(input_file)", and with a variant that leaves out
\* "input_file.endswith('.SAFE')"
SenInputIsDir == sx.opt.input_isdir
SenInputValid == sx.opt.input_isdir /\ sx.opt.input_safe

\* the checks at the start of main, in their order: sen2cor_path, the
\* answer of "L2A_Process --help", nprocs, the input scene
SenChecks ==
  /\ sx.pc = "checks"
  /\ sx' = IF ~sx.opt.sen2cor_isdir THEN SxEnd("fatal")
           ELSE IF ~sx.opt.help_ok THEN SxEnd("fatal")
           ELSE IF sx.nprocs > sx.opt.cpu THEN SxEnd("fatal")
           ELSE IF ~SenInputValid THEN SxEnd("fatal")
           ELSE [sx EXCEPT !.pc = "find_gipp",
                           !.nprocs = IF @ = DefaultNprocs THEN sx.opt.cpu - 1 ELSE @]
  /\ UNCHANGED <<autoVars, indexVars, nameVars, nx>>

\* the walk for L2A_GIPP.xml: gipp_path is only assigned when the file is
\* found, so "if not gipp_path" raises UnboundLocalError when it is not
SenFindGipp ==
  /\ sx.pc = "find_gipp"
  /\ sx' = IF sx.opt.gipp_found THEN [sx EXCEPT !.pc = "write_gipp"]
           ELSE SxEnd("exception")
  /\ UNCHANGED <<autoVars, indexVars, nameVars, nx>>

\* the modified GIPP: a temporary file, rel_dem_dir, and update_dict with
\* "Nr_Threads": options["nprocs"]
SenWriteGipp ==
  /\ sx.pc = "write_gipp"
  /\ sx' = [sx EXCEPT !.pc = "run",
                      !.rm_files = Append(@, "gipp_modified"),
                      !.rel_dem_dir = TRUE,
                      !.gipp = <<sx.opt.nprocs>>]
  /\ UNCHANGED <<autoVars, indexVars, nameVars, nx>>

\* L2A_Process on the input scene; its output says "terminated successfully"
\* or not, and it may leave a product in output_dir either way
SenRun ==
  /\ sx.pc = "run"
  /\ \E ok, product \in BOOLEAN :
       sx' = [sx EXCEPT !.pc = "collect", !.started = TRUE, !.successful = ok,
                        !.output_exists = ok \/ product]
  /\ UNCHANGED <<autoVars, indexVars, nameVars, nx>>

\* the entries of output_dir with the date block of the input: without
\* success each goes on rm_folders and main ends in the fatal error; with
\* success and flag r the input goes on rm_folders
SenCollect ==
  /\ sx.pc = "collect"
  /\ LET listed == (IF sx.output_exists THEN <<"output">> ELSE <<>>)
                   \o (IF sx.opt.out_has_input THEN <<"input">> ELSE <<>>)
     IN  sx' = IF ~sx.successful
               THEN [SxEnd("fatal") EXCEPT !.rm_folders = @ \o listed]
               ELSE [SxEnd("ok") EXCEPT
                       !.rm_folders = IF sx.opt.flag_r THEN Append(@, "input") ELSE @]
  /\ UNCHANGED <<autoVars, indexVars, nameVars, nx>>

\* cleanup(): os.remove of rm_files; the walk of the possible sen2cor
\* directories, where "rel_dem_dir in root" raises TypeError while
\* rel_dem_dir is None and a directory is walked; shutil.rmtree of rm_folders
SenCleanup ==
  /\ sx.pc = "exit"
  /\ LET walked == sx.opt.sen2cor_isdir \/ sx.opt.home_sen2cor
         raised == walked /\ ~sx.rel_dem_dir
         folders == IF raised THEN {} ELSE Range(sx.rm_folders)
     IN  sx' = [sx EXCEPT !.pc = "exited",
                          !.cleanup = IF raised THEN "raised" ELSE "completed",
                          !.attempted = Range(sx.rm_files) \cup folders,
                          !.input_exists = @ /\ "input" \notin folders,
                          !.output_exists = @ /\ "output" \notin folders]
  /\ UNCHANGED <<autoVars, indexVars, nameVars, nx>>

\* ==================================================== i.sentinel_2.ndvidiff
\* A run with ndvi_loss_map_vect named by the user, without flag c and
\* rgbi_basename; of output_dir only its creation is kept (makedirs_ok is
\* false when the option names a directory that os.makedirs cannot create).
\* nx.opt.cells: per cell the aggregated NDVI of the two
\* time steps (<<>> null, <<v>> a value in tenths) and whether the AOI
\* covers the cell.  A raster of the run is a function on its non-null
\* cells; nx.loss holds the cells that are 1 in the loss map.

\* Python's "if options[...]": the answer of an option is a string, true
\* unless empty; the variant also takes a number 0 as not given
TruthyNumber(o) == o.given /\ o.value # 0
Truthy(o) == o.given

\* a run of i.sentinel_2.ndvidiff starts; the other scripts do not run
InitNdvi ==
  LET Kind == << [first |-> <<6>>, second |-> <<6>>, aoi |-> TRUE],
                 [first |-> <<6>>, second |-> <<2>>, aoi |-> TRUE],
                 [first |-> <<2>>, second |-> <<0>>, aoi |-> TRUE],
                 [first |-> <<6>>, second |-> <<2>>, aoi |-> FALSE],
                 [first |-> <<>>,  second |-> <<4>>, aoi |-> TRUE],
                 [first |-> <<4>>, second |-> <<8>>, aoi |-> TRUE] >>
      Kinds == {k \in [Cells -> 1..Len(Kind)] :
                  \A c \in Cells : c > 1 => k[c - 1] <= k[c]}
      Given == {[given |-> FALSE, value |-> 0]}
  IN  /\ InitAutoIdle /\ px = IdlePx /\ vx = IdleVx /\ runs = IdleRuns /\ mapset = {}
      /\ sx = [pc |-> "idle"]
      /\ \E k \in Kinds, dirs \in [1..2 -> BOOLEAN], named, addons, makedirs \in BOOLEAN,
            thr \in Given \cup {[given |-> TRUE, value |-> v] : v \in {0, -3}},
            minv \in Given \cup {[given |-> TRUE, value |-> v] : v \in {0, 4}} :
           nx = [pc |-> "start", status |-> "running", x |-> 1,
                 opt |-> [cells |-> [c \in Cells |-> Kind[k[c]]], input_dir |-> dirs,
                          ndvi_map_first |-> named, addons |-> addons,
                          makedirs_ok |-> makedirs,
                          ndvi_diff_threshold |-> thr, relevant_min_ndvi |-> minv],
                 cur_region |-> "", region |-> "start", mapset |-> {}, rm |-> {},
                 mask |-> FALSE, ndvi_rasters |-> <<>>, diff |-> <<>>, threshold2 |-> 0,
                 loss |-> {}, cleanup |-> "none"]

NxEnd(how) == [nx EXCEPT !.pc = "exit", !.status = how]

\* the addon checks, the creation of output_dir (either ends in grass.fatal),
\* the saved region cur_region_<pid>, the region of the AOI
NdviStart ==
  /\ nx.pc = "start"
  /\ nx' = IF ~nx.opt.addons \/ ~nx.opt.makedirs_ok THEN NxEnd("fatal")
           ELSE [nx EXCEPT !.pc = "timestep", !.cur_region = "cur_region",
                           !.rm = @ \cup {<<"cur_region">>},
                           !.mapset = @ \cup {<<"cur_region">>}, !.region = "aoi"]
  /\ UNCHANGED <<autoVars, indexVars, nameVars, sx>>

\* one pass of the loop over the two input directories: the directory test,
\* the import to the STRDS, the aggregation of B04 and B08, the NDVI map
\* (named by the user for the first time step, or temporary)
NdviTimestep ==
  /\ nx.pc = "timestep"
  /\ LET x == nx.x
         step == IF x = 1 THEN "s2_timestep0" ELSE "s2_timestep1"
         temps == {<<step>>, <<step, "_B04">>, <<step, "_B08">>,
                   <<step, "_B04", "_aggregated">>, <<step, "_B08", "_aggregated">>}
         user == x = 1 /\ nx.opt.ndvi_map_first
         ndvi_map == IF user THEN <<"ndvi_map_first">> ELSE <<step, "_ndvi">>
         value(c) == IF x = 1 THEN nx.opt.cells[c].first ELSE nx.opt.cells[c].second
         raster == [c \in {d \in Cells : value(d) # <<>>} |-> value(c)[1]]
     IN  nx' = IF ~nx.opt.input_dir[x] THEN NxEnd("fatal")
               ELSE [nx EXCEPT !.pc = IF x = 1 THEN "timestep" ELSE "diff",
                               !.x = x + 1,
                               !.rm = @ \cup temps \cup (IF user THEN {} ELSE {ndvi_map}),
                               !.mapset = @ \cup temps \cup {ndvi_map},
                               !.ndvi_rasters = Append(@, raster)]
  /\ UNCHANGED <<autoVars, indexVars, nameVars, sx>>

\* r.univar -e: the quartile is the value at position int(n * pct / 100 - 0.5)
\* of the sorted non-null cells
univar_quartile(raster, pct) ==
  LET n == Cardinality(DOMAIN raster)
      pos == IF n * pct < 50 THEN 0 ELSE (n * pct - 50) \div 100
  IN  CHOOSE v \in {raster[c] : c \in DOMAIN raster} :
        /\ Cardinality({c \in DOMAIN raster : raster[c] < v}) <= pos
        /\ pos < Cardinality({c \in DOMAIN raster : raster[c] <= v})

\* the difference map "second - first" and the threshold, kept doubled:
\* the option when given, else q1 - 1.5 * (q3 - q1); r.univar prints no
\* quartiles for a map without cells and the lookup raises KeyError
NdviDiff ==
  /\ nx.pc = "diff"
  /\ LET first == nx.ndvi_rasters[1]
         second == nx.ndvi_rasters[2]
         diff == [c \in DOMAIN first \cap DOMAIN second |-> second[c] - first[c]]
         q1 == univar_quartile(diff, 25)
         q3 == univar_quartile(diff, 75)
         made == [nx EXCEPT !.diff = diff, !.rm = @ \cup {<<"ndvi_diff_map">>},
                            !.mapset = @ \cup {<<"ndvi_diff_map">>}]
     IN  nx' = IF Truthy(nx.opt.ndvi_diff_threshold)
               THEN [made EXCEPT !.pc = "loss",
                                 !.threshold2 = 2 * nx.opt.ndvi_diff_threshold.value]
               ELSE IF DOMAIN diff = {}
               THEN [made EXCEPT !.pc = "exit", !.status = "exception"]
               ELSE [made EXCEPT !.pc = "loss", !.threshold2 = 2 * q1 - 3 * (q3 - q1)]
  /\ UNCHANGED <<autoVars, indexVars, nameVars, sx>>

\* r.mask vector=aoi and loss_exp: 1 where the difference is <= the
\* threshold (and the first NDVI >= relevant_min_ndvi), null elsewhere
NdviLoss ==
  /\ nx.pc = "loss"
  /\ LET first == nx.ndvi_rasters[1]
         seen == {c \in DOMAIN nx.diff : nx.opt.cells[c].aoi}
         loss == IF Truthy(nx.opt.relevant_min_ndvi)
                 THEN {c \in seen : /\ 2 * nx.diff[c] <= nx.threshold2
                                    /\ first[c] >= nx.opt.relevant_min_ndvi.value}
                 ELSE {c \in seen : 2 * nx.diff[c] <= nx.threshold2}
     IN  nx' = [nx EXCEPT !.pc = "vectorize", !.mask = TRUE, !.loss = loss,
                          !.rm = @ \cup {<<"ndvi_loss_map">>},
                          !.mapset = @ \cup {<<"ndvi_loss_map">>}]
  /\ UNCHANGED <<autoVars, indexVars, nameVars, sx>>

\* r.to.vect into <ndvi_loss_map_vect>_tmp, g.rename to ndvi_loss_map_vect
NdviVectorize ==
  /\ nx.pc = "vectorize"
  /\ nx' = [NxEnd("ok") EXCEPT !.rm = @ \cup {<<"ndvi_loss_map_vect", "_tmp">>},
                               !.mapset = @ \cup {<<"ndvi_loss_map_vect">>}]
  /\ UNCHANGED <<autoVars, indexVars, nameVars, sx>>

\* cleanup(): g.region region=cur_region, which fails and ends cleanup when
\* cur_region is still ""; then general_cleanup of the removal lists and MASK
NdviCleanup ==
  /\ nx.pc = "exit"
  /\ nx' = IF nx.cur_region = ""
           THEN [nx EXCEPT !.pc = "exited", !.cleanup = "raised"]
           ELSE [nx EXCEPT !.pc = "exited", !.cleanup = "completed",
                           !.region = "start", !.mask = FALSE,
                           !.mapset = @ \ nx.rm]
  /\ UNCHANGED <<autoVars, indexVars, nameVars, sx>>

\* ---------------------------------------------------------- specifications
\* one run of i.sentinel_2.autotraining
Init ==
  /\ InitAuto /\ px = IdlePx /\ vx = IdleVx /\ runs = IdleRuns /\ mapset = {}
  /\ sx = [pc |-> "idle"] /\ nx = [pc |-> "idle"]
Next == NextAuto
Spec == Init /\ [][Next]_vars

\* one run of i.sentinel_2.parallel.index or of i.sentinel_2.vrt.index
InitIndex ==
  /\ InitAutoIdle /\ runs = IdleRuns /\ mapset = {}
  /\ sx = [pc |-> "idle"] /\ nx = [pc |-> "idle"]
  /\ \/ InitPx /\ vx = IdleVx
     \/ InitVx /\ px = IdlePx
SpecIndex == InitIndex /\ [][NextIndex]_vars

\* two runs of the scripts at the same time in one mapset
InitNamesOnly ==
  /\ InitAutoIdle /\ px = IdlePx /\ vx = IdleVx /\ InitNames
  /\ sx = [pc |-> "idle"] /\ nx = [pc |-> "idle"]
SpecNames == InitNamesOnly /\ [][NextNames]_vars

\* one run of i.sentinel_2.sen2cor
NextSen == SenChecks \/ SenFindGipp \/ SenWriteGipp \/ SenRun \/ SenCollect \/ SenCleanup
SpecSen2cor == InitSen /\ [][NextSen]_vars

\* one run of i.sentinel_2.ndvidiff
NextNdvi ==
  NdviStart \/ NdviTimestep \/ NdviDiff \/ NdviLoss \/ NdviVectorize \/ NdviCleanup
SpecNdvi == InitNdvi /\ [][NextNdvi]_vars

\* =============================================== claims: process counts
ParallelFacilities == {"r.mapcalc.tiled", "r.texture.tiled"}

\* C9: the value handed to an external parallel facility (processes= of
\* r.mapcalc.tiled / r.texture.tiled, nprocs= of ParallelModuleQueue) is at
\* least 1 and at most the CPU count, for every nprocs and CPU count.
C9_ProcessCountWithinCpus ==
  /\ \A k \in 1..Len(px.started) :
       px.started[k].cmd \in ParallelFacilities =>
         (1 <= px.started[k].processes /\ px.started[k].processes <= px.cpu)
  /\ vx.queue.on => (1 <= vx.queue.nprocs /\ vx.queue.nprocs <= vx.cpu)

\* C10: with nprocs = -2 on a machine with more than two CPUs the index is
\* computed by the tiled parallel command with cpu_count - 1 processes.
C10_DefaultIsAllButOneCore ==
  (px.status = "ok" /\ px.index # "asm" /\ px.nprocs = -2 /\ px.cpu > 2) =>
    px.started = <<Command("r.mapcalc.tiled", px.cpu - 1)>>

\* ============================================ claims: temporary layer names
\* C4: every temporary layer name a script puts on a removal list contains
\* the process id of the run, so two runs with different process ids never
\* name (create, overwrite or remove) the same layer.
C4_TempNamesCarryPid ==
  /\ \A p \in Pids : \A l \in Registered(p) : l.pid = p
  /\ \A p, q \in Pids : p # q => Registered(p) \cap Registered(q) = {}

\* ==================================================== claims: sen2cor runs
\* every check of main before the GIPP is looked for passes
SenChecksPass ==
  /\ sx.opt.sen2cor_isdir /\ sx.opt.help_ok /\ sx.opt.nprocs <= sx.opt.cpu
  /\ sx.opt.input_isdir /\ sx.opt.input_safe
SenEnded == sx.pc \in {"exit", "exited"}

\* C11: the Nr_Threads value written into the modified L2A_GIPP.xml is the
\* effective process count, cpu_count - 1 for nprocs = -2 and the given
\* nprocs otherwise, and is never negative.
C11_ThreadsAreEffectiveCount ==
  sx.gipp # <<>> =>
    /\ sx.gipp[1] = (IF sx.opt.nprocs = DefaultNprocs THEN sx.opt.cpu - 1
                     ELSE sx.opt.nprocs)
    /\ sx.gipp[1] >= 0

\* C16: the correction is started only after every check has passed; when a
\* check fails the run ends in a fatal error and the correction never starts.
C16_CorrectionOnlyAfterChecks ==
  /\ sx.started => SenChecksPass
  /\ (SenEnded /\ ~SenChecksPass) => (sx.status = "fatal" /\ ~sx.started)

\* C16 happens: all checks passed, the correction ran and the run ended well
C16_Witness ==
  sx.pc = "exited" /\ sx.started /\ sx.status = "ok" /\ SenChecksPass

\* C17: without a L2A_GIPP.xml under sen2cor_path the run ends in the
\* reported fatal error, not in an uncaught exception, and the correction
\* is not started.
C17_MissingGippIsFatal ==
  (SenEnded /\ SenChecksPass /\ ~sx.opt.gipp_found) =>
    (sx.status = "fatal" /\ ~sx.started)

\* C18: the input scene is gone after the run only when the correction
\* terminated successfully and flag r is set, wherever output_dir lies.
C18_InputKeptUnlessRemovalAsked ==
  (sx.pc = "exited" /\ sx.opt.input_isdir /\ ~sx.input_exists) =>
    (sx.successful /\ sx.opt.flag_r)

\* C19: cleanup runs to completion on every exit path, and every file of
\* rm_files and folder of rm_folders gets a removal attempt.
C19_CleanupCompletes ==
  sx.pc = "exited" =>
    /\ sx.cleanup = "completed"
    /\ (Range(sx.rm_files) \cup Range(sx.rm_folders)) \subseteq sx.attempted

\* ================================================== claims: index scripts
\* C12: with index NDVI and <red> or <nir> empty the run aborts with the
\* fatal error and starts no map-algebra command.
C12_NdviNeedsRedAndNir ==
  (px.index = "NDVI" /\ (~px.red \/ ~px.nir) /\ px.pc \in {"dispatch", "exit", "exited"})
    => (px.status = "fatal" /\ px.started = <<>>)

\* C13: i.sentinel_2.vrt.index ends in the "module was not found" fatal error
\* if and only if i.sentinel_2.parallel.index, the module it runs, is not
\* installed; when the module is missing no VRT is built.
C13_FatalIffModuleMissing ==
  vx.pc \notin {"idle", "find_program"} =>
    /\ (vx.status = "fatal") <=> ~vx.installed
    /\ ~vx.installed => ~vx.vrts

\* =================================================== claims: ndvidiff runs
\* C14: when input_dir_first or input_dir_second is no directory the run
\* ends in the fatal error and, after cleanup, none of the maps it created
\* is left, temporary or named by the user.
C14_MissingDirLeavesNoMap ==
  (nx.pc = "exited" /\ nx.opt.addons /\ nx.opt.makedirs_ok
     /\ \E x \in 1..2 : ~nx.opt.input_dir[x]) =>
    (nx.status = "fatal" /\ nx.mapset = {})

\* C15: the threshold is ndvi_diff_threshold whenever the option is given,
\* 0 included, and Q1 - 1.5 * (Q3 - Q1) of the difference map otherwise; a
\* cell is 1 in the loss map if and only if the AOI covers it, second -
\* first <= threshold and, with relevant_min_ndvi given, first >= that
\* value; every other cell is null.
C15_LossMapByThreshold ==
  nx.pc = "vectorize" =>
    LET first(c) == nx.opt.cells[c].first
        second(c) == nx.opt.cells[c].second
        both == {c \in Cells : first(c) # <<>> /\ second(c) # <<>>}
        difference == [c \in both |-> second(c)[1] - first(c)[1]]
        given == nx.opt.ndvi_diff_threshold
        q1 == univar_quartile(difference, 25)
        q3 == univar_quartile(difference, 75)
        doubled == IF given.given THEN 2 * given.value ELSE 2 * q1 - 3 * (q3 - q1)
        minimum == nx.opt.relevant_min_ndvi
    IN  nx.loss = {c \in both : /\ nx.opt.cells[c].aoi
                                /\ 2 * difference[c] <= doubled
                                /\ minimum.given => first(c)[1] >= minimum.value}

\* C15 happens: the user gave the threshold 0 and the loss map holds some
\* cells of the AOI and leaves others out
C15_Witness ==
  /\ nx.pc = "vectorize"
  /\ nx.opt.ndvi_diff_threshold = [given |-> TRUE, value |-> 0]
  /\ nx.loss # {}
  /\ \E c \in DOMAIN nx.diff : nx.opt.cells[c].aoi /\ c \notin nx.loss

\* ============================================ claims: autotraining, BSI
\* C20: bsi is optional; in a run without a BSI raster the step that reads
\* the BSI percentile of the bare soil mask does not fail, the run goes on
\* to the bare soil raster and the remaining classes.
C20_RunsWithoutBsi ==
  [][(opt.bsi = None /\ BaresoilBsiPercentile) => pc' = "baresoil_calc"]_vars

\* ================================== claims: autotraining, labels and masks
\* C21: after a successful run output_vector has the integer column
\* int_column and the string column str_column, and the label of every point
\* is the one of its integer code (10 water, 20 low vegetation, 30 forest,
\* 40 built-up, 50 bare soil), never empty and never that of another class.
C21_LabelBelongsToCode ==
  Succeeded =>
    /\ {"int_column", "str_column"} \subseteq vect.cols
    /\ "output_raster" \notin vect.cols
    /\ \A cat \in DOMAIN vect.pts :
         /\ cat \in {10, 20, 30, 40, 50}
         /\ vect.label[cat] = CASE cat = 10 -> "water"
                                [] cat = 20 -> "low vegetation"
                                [] cat = 30 -> "forest"
                                [] cat = 40 -> "built-up"
                                [] cat = 50 -> "bare soil"

\* C21 happens: a successful run labelled the points of two classes, bare
\* soil among them
C21_Witness ==
  /\ Succeeded /\ Exited
  /\ \E cat \in DOMAIN vect.pts \ {50} : vect.pts[cat] > 0
  /\ 50 \in DOMAIN vect.pts /\ vect.pts[50] > 0 /\ vect.label[50] = "bare soil"

\* the mask raster, the training raster and the position of the coverage
\* test of each class
ClassPhases ==
  {<<tmp.both_class_water, tmp.water_raster, "water_test">>,
   <<tmp.lowveg_mask_raster, tmp.lowveg_raster, "lowveg_test">>,
   <<tmp.forest_mask_raster, tmp.forest_raster, "forest_test">>,
   <<tmp.baresoil_mask_raster, tmp.baresoil_raster, "baresoil_test">>,
   <<tmp.builtup_mask_raster, tmp.builtup_raster, "builtup_test">>}

\* C22: in the class detection phase setting and removing the mask strictly
\* alternate: the mask of a class is set only when no mask of the run is
\* active, the training raster of a class is written while exactly the mask
\* of that class is active, and every coverage test is evaluated while no
\* mask is active.
C22_MaskAlternates ==
  [][\A s \in ClassPhases :
       /\ (mask' # mask /\ mask'.on /\ mask'.base = s[1]) => (~mask.on \/ mask.user)
       /\ (s[2] \notin DOMAIN rast /\ s[2] \in DOMAIN rast')
            => (mask.on /\ mask.base = s[1])
       /\ (pc = s[3] /\ pc' # pc) => ~mask.on]_vars

\* C22 happens: the five masks were set and removed in turn and the last
\* coverage test is about to be evaluated
C22_Witness ==
  /\ pc = "builtup_test"
  /\ ~mask.on
  /\ \A s \in ClassPhases : s[1] \in DOMAIN rast /\ s[2] \in DOMAIN rast

\* ======================================= claims: autotraining, thresholds
\* C23: low vegetation: the NDVI percentile used is the 25th when the median
\* NDVI inside the low vegetation mask is greater than 0.5 and the 75th
\* otherwise, a median of exactly 0.5 included; a cell gets code 20 if and
\* only if it is inside the mask and its NDVI is strictly greater than the
\* value of that percentile, and is null otherwise.
C23_LowvegPercentileByMedian ==
  (pc = "lowveg_unmask" /\ mask.on /\ mask.base = tmp.lowveg_mask_raster) =>
    LET inside == {c \in Cells : rast[tmp.lowveg_mask_raster][c] # Null}
        nd(c) == CellKinds[opt.region[c]].ndvi
        median == get_percentile(ndvi, 50)
        used == IF median > 20 THEN 25 ELSE 75
        value == get_percentile(ndvi, used)
    IN  /\ loc.ndvi_percentile_lowveg = used
        /\ \A c \in Cells :
             rast[tmp.lowveg_raster][c] =
               (IF c \in inside /\ 4 * nd(c) > value THEN 20 ELSE Null)

\* C23 happens: the median inside a mask of cells of different NDVI is
\* exactly 0.5, the 75th percentile was used and the training raster is
\* written; no cell of the mask lies above that percentile
C23_Witness ==
  /\ pc = "lowveg_unmask"
  /\ loc.lowveg_ndvi_median = 20
  /\ loc.ndvi_percentile_lowveg = 75
  /\ \E c, d \in Cells :
       /\ rast[tmp.lowveg_mask_raster][c] # Null /\ rast[tmp.lowveg_mask_raster][d] # Null
       /\ CellKinds[opt.region[c]].ndvi < CellKinds[opt.region[d]].ndvi
       /\ rast[tmp.lowveg_raster][d] = Null

\* C24: bare soil: the NDVI percentile used is the 75th when the median NDVI
\* inside the bare soil mask is less than 0.3 and the 25th otherwise, a
\* median of exactly 0.3 included; a cell gets code 50 if and only if it is
\* inside the mask, its BSI is >= the 25th BSI percentile of the mask and its
\* NDVI is <= the value of the chosen NDVI percentile, and is null otherwise.
C24_BaresoilPercentileByMedian ==
  (pc = "baresoil_unmask" /\ mask.on /\ mask.base = tmp.baresoil_mask_raster) =>
    LET inside == {c \in Cells : rast[tmp.baresoil_mask_raster][c] # Null}
        nd(c) == CellKinds[opt.region[c]].ndvi
        bs(c) == CellKinds[opt.region[c]].bsi
        median == get_percentile(ndvi, 50)
        used == IF median < 12 THEN 75 ELSE 25
        value == get_percentile(ndvi, used)
        bsi_value == get_percentile(PlainName("bsi"), 25)
    IN  /\ loc.ndvi_percentile_baresoil = used
        /\ \A c \in Cells :
             rast[tmp.baresoil_raster][c] =
               (IF c \in inside /\ 4 * bs(c) >= bsi_value /\ 4 * nd(c) <= value
                THEN 50 ELSE Null)

\* C24 happens: the median inside the mask is exactly 0.3, the 25th
\* percentile was used, one cell of the mask got code 50 and another not
C24_Witness ==
  /\ pc = "baresoil_unmask"
  /\ loc.baresoil_ndvi_median = 12
  /\ loc.ndvi_percentile_baresoil = 25
  /\ \E c, d \in Cells :
       /\ rast[tmp.baresoil_mask_raster][c] # Null /\ rast[tmp.baresoil_raster][c] = 50
       /\ rast[tmp.baresoil_mask_raster][d] # Null /\ rast[tmp.baresoil_raster][d] = Null

\* ================================ claims: vrt.index, queue and region
\* C25: when indices are requested at most nprocs index processes run at the
\* same time, every index process that was started has finished before the
\* temporary region is deleted, and the computational region after the run
\* (after cleanup on failure) is the region before the run; with None among
\* the indices no index process is started and the region is never changed.
C25_ProcessesFinishBeforeRegionGoes ==
  LET running == Cardinality({i \in DOMAIN vx.procs : vx.procs[i] = "running"})
  IN  /\ running > 0 => running <= vx.queue.nprocs
      /\ (vx.queue.on /\ ~vx.temp_region) => running = 0
      /\ vx.pc = "exited" => vx.region = "start"
      /\ InSeq("None", vx.indices) => (vx.put = <<>> /\ vx.region = "start")

====
